---- MODULE Spec2Model ----
(***************************************************************************)
(* Model of the modal batch operator BATCH_OT_image_to_blend_library of    *)
(* batch_image_asset_library_modal_copy.py: execute() validates the two    *)
(* paths and scans the folder, modal() converts one image per TIMER event  *)
(* and saves the library on the TIMER event after the last file.           *)
(*                                                                         *)
(* Python strings are modelled as sequences of one-character strings, so   *)
(* that lower(), endswith(), splitext() and the f-strings are computed.    *)
(* Host objects (bpy.data.*, the window manager) hold what the operator    *)
(* stores in them: a name assigned to an image or a brush is the name read *)
(* back.                                                                   *)
(***************************************************************************)
EXTENDS Naturals, Sequences, FiniteSets, TLC

\* ------------------------------------------------------------------ bounds

\* Longest directory listing the environment offers.
MaxFiles == 2

\* Most TIMER events given to modal() after it has returned {'FINISHED'}.
MaxLateTicks == 1

\* ------------------------------------------------------- string primitives

UpperChars == <<"A","B","C","D","E","F","G","H","I","J","K","L","M",
                "N","O","P","Q","R","S","T","U","V","W","X","Y","Z">>
LowerChars == <<"a","b","c","d","e","f","g","h","i","j","k","l","m",
                "n","o","p","q","r","s","t","u","v","w","x","y","z">>
DigitChars == <<"0","1","2","3","4","5","6","7","8","9">>

\* str.lower() on one character.
lower_char(c) ==
    IF \E i \in DOMAIN UpperChars : UpperChars[i] = c
    THEN LowerChars[CHOOSE i \in DOMAIN UpperChars : UpperChars[i] = c]
    ELSE c

\* str.lower()
lower(s) == [i \in 1..Len(s) |-> lower_char(s[i])]

\* str.endswith(suffix) for one suffix
endswith(s, suffix) ==
    /\ Len(suffix) <= Len(s)
    /\ SubSeq(s, Len(s) - Len(suffix) + 1, Len(s)) = suffix

\* str.rfind(c) as a 1-based index, 0 when c does not occur
rfind(s, c) ==
    IF \E i \in 1..Len(s) : s[i] = c
    THEN CHOOSE i \in 1..Len(s) : s[i] = c /\ \A j \in (i+1)..Len(s) : s[j] # c
    ELSE 0

\* str.rstrip(c)
RECURSIVE rstrip(_, _)
rstrip(s, c) ==
    IF s # <<>> /\ s[Len(s)] = c THEN rstrip(SubSeq(s, 1, Len(s) - 1), c) ELSE s

\* str(i) of a non-negative integer, as the f-string of make_unique_name formats it
RECURSIVE str_int(_)
str_int(i) ==
    IF i < 10 THEN <<DigitChars[i + 1]>>
    ELSE str_int(i \div 10) \o <<DigitChars[(i % 10) + 1]>>

\* os.path.isdir is decided by the file system, os.path.dirname and
\* os.path.splitext are computed as posixpath computes them.
dirname(p) ==
    LET i    == rfind(p, "/")
        head == SubSeq(p, 1, i)
    IN  IF head # <<>> /\ \E k \in 1..Len(head) : head[k] # "/"
        THEN rstrip(head, "/")
        ELSE head

splitext_root(p) ==
    LET sepIndex == rfind(p, "/")
        dotIndex == rfind(p, ".")
    IN  IF dotIndex > sepIndex /\ \E k \in (sepIndex + 1)..(dotIndex - 1) : p[k] # "."
        THEN SubSeq(p, 1, dotIndex - 1)
        ELSE p

\* ---------------------------------------------------------------- line 15

IMAGE_EXTENSIONS ==
    { <<".","p","n","g">>, <<".","j","p","g">>, <<".","j","p","e","g">>,
      <<".","t","i","f">>, <<".","t","i","f","f">>, <<".","b","m","p">>,
      <<".","p","s","d">>, <<".","e","x","r">>, <<".","h","d","r">>,
      <<".","t","g","a">>, <<".","g","i","f">>, <<".","d","d","s">>,
      <<".","j","p","2">>, <<".","w","e","b","p">> }

\* A faulty test of the extension: the case of the name is not folded.
is_image_file_cased(f) == \E ext \in IMAGE_EXTENSIONS : endswith(f, ext)

\* f.lower().endswith(IMAGE_EXTENSIONS)
is_image_file(f) == \E ext \in IMAGE_EXTENSIONS : endswith(lower(f), ext)

\* [f for f in os.listdir(image_folder) if f.lower().endswith(IMAGE_EXTENSIONS)]
scan_image_files(entries) == SelectSeq(entries, is_image_file)

\* ------------------------------------------------------------ lines 17-23

\* A faulty allocator: the counter starts at 2, so the candidate base_1 is
\* skipped.
RECURSIVE make_unique_name_loop_from2(_, _, _, _)
make_unique_name_loop_from2(base_name, existing_names, name, i) ==
    IF name \in existing_names
    THEN make_unique_name_loop_from2(base_name, existing_names,
                                     base_name \o <<"_">> \o str_int(i + 1), i + 1)
    ELSE name

\* while name in existing_names: name = f"{base_name}_{i}"; i += 1
RECURSIVE make_unique_name_loop(_, _, _, _)
make_unique_name_loop(base_name, existing_names, name, i) ==
    IF name \in existing_names
    THEN make_unique_name_loop(base_name, existing_names,
                               base_name \o <<"_">> \o str_int(i), i + 1)
    ELSE name

make_unique_name_from2(base_name, existing_names) ==
    make_unique_name_loop_from2(base_name, existing_names, base_name, 1)

make_unique_name(base_name, existing_names) ==
    make_unique_name_loop(base_name, existing_names, base_name, 1)

\* f"{image.name}_Brush"
brush_base_name(image_name) == image_name \o <<"_","B","r","u","s","h">>

\* ------------------------------------------------------------ environment

\* Directories that exist on the file system.
Dirs == { <<"/","i">>, <<"/","o">> }

isdir(p) == p \in Dirs

\* Values of the operator's image_folder property.
ImageFolders == { <<"/","i">>, <<"/","x">> }

\* Values of the operator's output_blend property.
OutputBlends ==
    { <<"/","o","/","l">>,
      <<"/","o","/","l",".","b","l","e","n","d">>,
      <<"/","o","/","l",".","B","l","e","n","d">>,
      <<"/","x","/","l">> }

\* Names a directory entry of the image folder can have.
FileNames ==
    { <<"a",".","p","n","g">>, <<"a",".","J","P","G">>,
      <<"b",".","g","i","f">>, <<"n",".","t","x","t">> }

\* Directory listings: entries are distinct, in the order os.listdir gives them.
Listings ==
    UNION { { s \in [1..n -> FileNames] : \A i, j \in 1..n : i # j => s[i] # s[j] }
            : n \in 0..MaxFiles }

\* Brush names bpy.data.brushes can hold before the job starts.
PreBrushNames ==
    { <<"a","_","B","r","u","s","h">>,
      <<"a","_","B","r","u","s","h","_","1">>,
      <<"b","_","B","r","u","s","h">> }

\* event.type values the window manager delivers to the modal handler.
EventTypes == { "TIMER", "MOUSEMOVE", "ESC" }

\* Where the try block of modal() can leave: the line that raises, or none.
Outcomes == { "load_error", "texture_error", "brush_error", "mark_error", "ok" }

None == "None"

\* ------------------------------------------------------------------ state

VARIABLES
    image_folder,           \* operator property (line 34)
    output_blend,           \* operator property (lines 35-39)
    listdir,                \* os.listdir(image_folder), when it is a directory
    brushes,                \* names in bpy.data.brushes
    images,                 \* names in bpy.data.images
    _timer,                 \* line 42
    _step,                  \* line 43
    _image_files,           \* line 44
    _num_files,             \* line 45
    _created_brushes,       \* line 46
    _existing_brush_names,  \* line 47
    _done,                  \* line 48
    _failures,              \* line 49
    wm_timers,              \* timers registered with the window manager
    wm_handler,             \* TRUE while the operator is a modal handler
    calls,                  \* window-manager and save calls made, in order
    reports,                \* self.report(...) calls made, in order
    result,                 \* what execute() or modal() returned last
    last_event,             \* event.type of the last event given to modal()
    attempts,               \* per processed file: the file and how its try block left
    allocs,                 \* per make_unique_name call of the job: arguments and result
    shutdown,               \* TRUE once the host has shut the running job down
    ticks,                  \* TIMER events given to modal() so far
    brushes_at_execute      \* bpy.data.brushes as line 77 found it

vars == << image_folder, output_blend, listdir, brushes, images,
           _timer, _step, _image_files, _num_files, _created_brushes,
           _existing_brush_names, _done, _failures,
           wm_timers, wm_handler, calls, reports, result, last_event,
           attempts, allocs, shutdown, ticks, brushes_at_execute >>

\* The operator's own fields.
job_vars == << _timer, _step, _image_files, _num_files, _created_brushes,
               _existing_brush_names, _done, _failures >>

\* What the operator's environment holds.
host_vars == << brushes, images, wm_timers, wm_handler, calls, reports >>

request_vars == << image_folder, output_blend, listdir >>

Call(op, n, path) == [op |-> op, n |-> n, path |-> path]

Report(level, text, count, path, files) ==
    [level |-> level, text |-> text, count |-> count, path |-> path, files |-> files]

ErrorReport(text) == Report("ERROR", text, 0, <<>>, <<>>)

\* Class attributes of lines 42-49, the properties as the dialog set them, and a
\* host with some brushes and no job.
Init ==
    /\ image_folder \in ImageFolders
    /\ output_blend \in OutputBlends
    /\ listdir \in Listings
    /\ brushes \in SUBSET PreBrushNames
    /\ images = {}
    /\ _timer = None
    /\ _step = 0
    /\ _image_files = <<>>
    /\ _num_files = 0
    /\ _created_brushes = <<>>
    /\ _existing_brush_names = {}
    /\ _done = FALSE
    /\ _failures = <<>>
    /\ wm_timers = {}
    /\ wm_handler = FALSE
    /\ calls = <<>>
    /\ reports = <<>>
    /\ result = None
    /\ last_event = None
    /\ attempts = <<>>
    /\ allocs = <<>>
    /\ shutdown = FALSE
    /\ ticks = 0
    /\ brushes_at_execute = {}

\* ---------------------------------------------------------------- execute

\* The window manager keeps a modal handler while it returns a running status and
\* drops it on {'FINISHED'} or {'CANCELLED'} (the statuses of lines 85, 138, 139).
keeps_handler(status) == status \in {"RUNNING_MODAL", "PASS_THROUGH"}

\* A faulty emptiness test: an empty file list is let through.
no_image_files_never(files) == FALSE

\* line 70: if not self._image_files
no_image_files(files) == files = <<>>

TimerHandle == "timer"

\* A faulty seed: the names of the brushes that exist are not read.
existing_names_seed_empty == {}

\* line 77: {b.name for b in bpy.data.brushes}
existing_names_seed == brushes

\* lines 58-60, 62-65, 70-72: report the error and return {'CANCELLED'}
execute_cancel(text, files) ==
    /\ reports' = Append(reports, ErrorReport(text))
    /\ result' = "CANCELLED"
    /\ _image_files' = files
    /\ UNCHANGED << _timer, _step, _num_files, _created_brushes,
                    _existing_brush_names, _done, _failures,
                    wm_timers, wm_handler, calls, brushes_at_execute >>

\* lines 74-85: set the job's fields, begin progress, add the timer and the handler
execute_start(files) ==
    /\ _image_files' = files
    /\ _num_files' = Len(files)
    /\ _step' = 0
    /\ _created_brushes' = <<>>
    /\ _existing_brush_names' = existing_names_seed
    /\ brushes_at_execute' = brushes
    /\ _done' = FALSE
    /\ _failures' = <<>>
    /\ calls' = calls \o << Call("progress_begin", Len(files), <<>>),
                            Call("event_timer_add", 0, <<>>),
                            Call("modal_handler_add", 0, <<>>) >>
    /\ _timer' = TimerHandle
    /\ wm_timers' = wm_timers \cup {TimerHandle}
    /\ wm_handler' = keeps_handler("RUNNING_MODAL")
    /\ result' = "RUNNING_MODAL"
    /\ UNCHANGED reports

\* lines 54-85
execute ==
    /\ result = None
    /\ IF ~isdir(image_folder)
       THEN execute_cancel("Invalid image folder path.", _image_files)
       ELSE IF ~isdir(dirname(output_blend))
       THEN execute_cancel("Invalid output blend folder.", _image_files)
       ELSE IF no_image_files(scan_image_files(listdir))
       THEN execute_cancel("No image files found in the selected folder.",
                           scan_image_files(listdir))
       ELSE execute_start(scan_image_files(listdir))
    /\ UNCHANGED << request_vars, brushes, images, last_event, attempts, allocs,
                    shutdown, ticks >>

\* ------------------------------------------------------------------ modal

\* A faulty event test: every event is taken for the operator's own tick.
is_own_tick_any(event_type) == TRUE

\* line 97: if event.type == 'TIMER'
is_own_tick(event_type) == event_type = "TIMER"

\* A faulty bound test: the last file is never converted.
has_next_file_short == _step + 1 < _num_files

\* line 98: if self._step < self._num_files
has_next_file == _step < _num_files

\* A faulty except clause: the failing file is not recorded.
record_failure_dropped(failures, img_file) == failures

\* line 118: self._failures.append(img_file)
record_failure(failures, img_file) == Append(failures, img_file)

\* A faulty timer test: the timer is taken to be unset.
timer_is_set_never == FALSE

\* line 91: if self._timer
timer_is_set == _timer # None

\* A faulty exit: the save branch returns the status of a job that goes on.
finish_status_pass == "PASS_THROUGH"

\* line 138: return finish('FINISHED')
finish_status == "FINISHED"

\* A faulty finish: the completed flag is not set.
finish_done_unset == FALSE

\* line 94: self._done = True
finish_done == TRUE

\* A faulty cursor: the step is not advanced, so the same file comes again.
step_after_stuck(step) == step

\* line 122: self._step += 1
step_after(step) == step + 1

\* A faulty progress value: the cursor before the increment.
progress_value_before(step) == step

\* line 121: wm.progress_update(self._step + 1)
progress_value(step) == step + 1

\* A faulty append: the created brush is not kept.
keep_brush_dropped(created_brushes, brush) == created_brushes

\* line 115: self._created_brushes.append(brush)
keep_brush(created_brushes, brush) == Append(created_brushes, brush)

\* A faulty count: the summary counts every file of the list.
saved_count_all == _num_files

\* line 132: len(self._created_brushes)
saved_count == Len(_created_brushes)

\* A faulty test of the extension: the case of the path is not folded.
normalize_blend_path_cased(blend_path) ==
    IF ~endswith(blend_path, <<".","b","l","e","n","d">>)
    THEN blend_path \o <<".","b","l","e","n","d">>
    ELSE blend_path

\* lines 128-130: append '.blend' unless the lowercased path ends with it
normalize_blend_path(blend_path) ==
    IF ~endswith(lower(blend_path), <<".","b","l","e","n","d">>)
    THEN blend_path \o <<".","b","l","e","n","d">>
    ELSE blend_path

\* lines 99-124: convert the file at _step; outcome names the line that raises
process_item(outcome) ==
    LET img_file   == _image_files[_step + 1]
        image_name == splitext_root(img_file)
        base_name  == brush_base_name(image_name)
        brush_name == make_unique_name(base_name, _existing_brush_names)
        loaded     == outcome # "load_error"
        allocated  == outcome \in {"brush_error", "mark_error", "ok"}
        created    == outcome \in {"mark_error", "ok"}
    IN  /\ images' = IF loaded THEN images \cup {image_name} ELSE images
        /\ allocs' = IF allocated
                     THEN Append(allocs, [file |-> img_file, base |-> base_name,
                                          existing |-> _existing_brush_names,
                                          namespace |-> brushes, name |-> brush_name])
                     ELSE allocs
        /\ brushes' = IF created THEN brushes \cup {brush_name} ELSE brushes
        /\ IF outcome = "ok"
           THEN /\ _created_brushes' =
                      keep_brush(_created_brushes, [name |-> brush_name, image |-> image_name])
                /\ _existing_brush_names' = _existing_brush_names \cup {brush_name}
                /\ UNCHANGED << _failures, reports >>
           ELSE /\ _failures' = record_failure(_failures, img_file)
                /\ reports' = Append(reports,
                                     Report("WARNING", "Failed to load", 0, <<>>, <<img_file>>))
                /\ UNCHANGED << _created_brushes, _existing_brush_names >>
        /\ calls' = Append(calls, Call("progress_update", progress_value(_step), <<>>))
        /\ _step' = step_after(_step)
        /\ attempts' = Append(attempts, [file |-> img_file, outcome |-> outcome])
        /\ result' = "PASS_THROUGH"
        /\ wm_handler' = keeps_handler("PASS_THROUGH")
        /\ UNCHANGED << _timer, _image_files, _num_files, _done, wm_timers >>

\* lines 126-138 with finish of lines 90-95: save, report, release, return {'FINISHED'}
save_and_finish(save_ok) ==
    LET blend_path == normalize_blend_path(output_blend)
        summary    == Report("INFO", "Saved", saved_count, blend_path, _failures)
    IN  /\ reports' = Append(reports,
                             IF save_ok THEN summary ELSE ErrorReport("Failed to save blend"))
        /\ calls' = calls \o << Call("save_mainfile", 0, blend_path) >>
                          \o (IF timer_is_set
                              THEN << Call("event_timer_remove", 0, <<>>) >> ELSE <<>>)
                          \o << Call("progress_end", 0, <<>>) >>
        /\ wm_timers' = IF timer_is_set THEN wm_timers \ {_timer} ELSE wm_timers
        /\ _done' = finish_done
        /\ result' = finish_status
        /\ wm_handler' = keeps_handler(finish_status)
        /\ UNCHANGED << _timer, _step, _image_files, _num_files, _created_brushes,
                        _existing_brush_names, _failures, brushes, images,
                        attempts, allocs >>

\* line 139: return {'PASS_THROUGH'}
pass_through ==
    /\ result' = "PASS_THROUGH"
    /\ wm_handler' = keeps_handler("PASS_THROUGH")
    /\ UNCHANGED << job_vars, brushes, images, wm_timers, calls, reports,
                    attempts, allocs >>

\* lines 87-139: one call of modal() with an event of the given type
modal_call(event_type) ==
    /\ last_event' = event_type
    /\ ticks' = IF event_type = "TIMER" THEN ticks + 1 ELSE ticks
    /\ IF is_own_tick(event_type)
       THEN IF has_next_file
            THEN \E outcome \in Outcomes : process_item(outcome)
            ELSE \E save_ok \in BOOLEAN : save_and_finish(save_ok)
       ELSE pass_through
    /\ UNCHANGED << request_vars, shutdown, brushes_at_execute >>

\* The window manager gives one event to the registered handler.
modal(event_type) ==
    /\ wm_handler
    /\ modal_call(event_type)

\* The host shuts a running job down between two events. The operator defines no
\* cancel(): the host drops the handler and no code of the operator runs.
host_shutdown ==
    /\ wm_handler
    /\ wm_handler' = FALSE
    /\ shutdown' = TRUE
    /\ UNCHANGED << request_vars, job_vars, brushes, images, wm_timers, calls,
                    reports, result, last_event, attempts, allocs, ticks,
                    brushes_at_execute >>

Next ==
    \/ execute
    \/ \E event_type \in EventTypes : modal(event_type)
    \/ host_shutdown

Spec == Init /\ [][Next]_vars

\* ------------------------------------------------------- observed history

CallCount(op) == Cardinality({ i \in DOMAIN calls : calls[i].op = op })

SaveCount == CallCount("save_mainfile")

Files(seq) == [i \in DOMAIN seq |-> seq[i].file]

IsFailedAttempt(a) == a.outcome # "ok"

FailedAttempts == SelectSeq(attempts, IsFailedAttempt)

\* execute() accepted the request: the job is, or was, a modal job.
Accepted == result \in {"RUNNING_MODAL", "PASS_THROUGH", "FINISHED"}

LastReport == reports[Len(reports)]

SaveFailed == _done /\ reports # <<>> /\ LastReport.text = "Failed to save blend"

\* ------------------------------------------------------------------ claims

\* C1: failure isolation. Whatever conversions raise, once the cursor has reached
\* the total every file of the list was attempted, in order; the brushes kept are
\* as many as the files that did not fail; _failures holds exactly the failing
\* files, in processing order; a failing tick leaves the job a running handler;
\* and a finished job has made the save call.
C1_FailureIsolation ==
    /\ (Accepted /\ _step = _num_files) =>
          /\ Files(attempts) = _image_files
          /\ Len(_created_brushes) = _num_files - Len(FailedAttempts)
          /\ _failures = Files(FailedAttempts)
    /\ (Accepted /\ ~_done /\ ~shutdown) => wm_handler
    /\ _done => SaveCount = 1

C1_Witness ==
    /\ _done
    /\ _num_files = 2
    /\ attempts[1].outcome = "load_error"
    /\ attempts[2].outcome = "ok"
    /\ _failures = << _image_files[1] >>
    /\ Len(_created_brushes) = 1

\* C2: in an accepted job 0 <= _step <= _num_files; _step never decreases; the save
\* is entered at most once, from a state with _step = _num_files, and a finished job
\* has entered it once.
C2_CursorInv ==
    /\ Accepted => (0 <= _step /\ _step <= _num_files)
    /\ SaveCount <= 1
    /\ _done => SaveCount = 1

C2_CursorStep ==
    /\ _step' >= _step
    /\ SaveCount' # SaveCount => (_step = _num_files /\ _step' = _step /\ SaveCount = 0)

C2_Cursor == []C2_CursorInv /\ [][C2_CursorStep]_vars

C2_Witness == _done /\ _num_files = 2 /\ _step = 2 /\ SaveCount = 1

\* C3: save_mainfile is called at most once, and once in a finished job; when it
\* has been called every file of the list has been attempted; and after it no
\* conversion happens (no attempt, no new image, no new brush).
C3_SaveInv ==
    /\ LET saves == { i \in DOMAIN calls : calls[i].op = "save_mainfile" }
       IN  /\ Cardinality(saves) <= 1
           /\ \A i \in saves :
                 /\ Files(attempts) = _image_files
                 /\ { j \in DOMAIN calls : calls[j].op = "progress_update" /\ j > i } = {}
    /\ _done => CallCount("save_mainfile") = 1

C3_SaveStep ==
    CallCount("save_mainfile") >= 1 =>
        /\ attempts' = attempts
        /\ images' = images
        /\ brushes' = brushes
        /\ _created_brushes' = _created_brushes

C3_SaveOnce == []C3_SaveInv /\ [][C3_SaveStep]_vars

C3_Witness ==
    /\ CallCount("save_mainfile") = 1
    /\ Len(attempts) = 2
    /\ Len(_created_brushes) = 2

\* C4: when image_folder is no directory, or the directory of output_blend is no
\* directory, or no entry of the listing is an image file, execute returns
\* {'CANCELLED'} with one ERROR report, and the submission never begins progress,
\* adds a timer or a handler, converts a file or saves.
PreflightFails ==
    \/ image_folder \notin Dirs
    \/ dirname(output_blend) \notin Dirs
    \/ \A i \in DOMAIN listdir : ~is_image_file(listdir[i])

C4_PreflightAbort ==
    (PreflightFails /\ result # None) =>
        /\ result = "CANCELLED"
        /\ Len(reports) = 1
        /\ reports[1].level = "ERROR"
        /\ calls = <<>>
        /\ wm_timers = {}
        /\ _timer = None
        /\ ~wm_handler
        /\ attempts = <<>>
        /\ images = {}
        /\ _created_brushes = <<>>
        /\ ~_done

C4_Witness ==
    /\ result = "CANCELLED"
    /\ image_folder \in Dirs
    /\ dirname(output_blend) \in Dirs
    /\ listdir # <<>>
    /\ reports[1].text = "No image files found in the selected folder."

\* C5: when save_mainfile raises, the job ends aborted, which the operator
\* expresses as the status {'CANCELLED'} (lines 60, 65, 72) and not as the
\* {'FINISHED'} of a successful save; no INFO summary is reported; and the brushes
\* created so far stay in _created_brushes and in bpy.data.brushes.
C5_SaveFailedAborts ==
    SaveFailed =>
        /\ result = "CANCELLED"
        /\ \A i \in DOMAIN reports : reports[i].level # "INFO"
        /\ Len(_created_brushes) = Len(attempts) - Len(FailedAttempts)
        /\ \A i \in DOMAIN _created_brushes : _created_brushes[i].name \in brushes

\* C6: on every path to a terminal status (FINISHED after a good or a failed save,
\* CANCELLED before the job starts) the timer is removed as often as it was added
\* and progress is ended as often as it was begun, and never more than once; a
\* finished job has released both once; nothing is released while files remain.
Terminal == result \in {"FINISHED", "CANCELLED"}

C6_ReleaseOnce ==
    /\ CallCount("event_timer_remove") <= 1
    /\ CallCount("progress_end") <= 1
    /\ Terminal =>
          /\ CallCount("event_timer_remove") = CallCount("event_timer_add")
          /\ CallCount("progress_end") = CallCount("progress_begin")
          /\ wm_timers = {}
    /\ result = "FINISHED" =>
          /\ CallCount("event_timer_remove") = 1
          /\ CallCount("progress_end") = 1
    /\ (CallCount("event_timer_remove") > 0 \/ CallCount("progress_end") > 0) =>
          /\ _step = _num_files
          /\ Files(attempts) = _image_files

C6_Witness ==
    /\ SaveFailed
    /\ result = "FINISHED"
    /\ CallCount("event_timer_add") = 1
    /\ CallCount("event_timer_remove") = 1
    /\ CallCount("progress_end") = 1
    /\ wm_timers = {}

\* C7: an event whose type is not TIMER leaves the job's fields, the brushes and
\* images, the timer, the calls made (progress, save) and the reports unchanged,
\* converts nothing, returns {'PASS_THROUGH'} and leaves the job a running handler.
C7_OtherEventStep ==
    \A event_type \in EventTypes \ {"TIMER"} :
        modal(event_type) =>
            /\ UNCHANGED << job_vars, brushes, images, wm_timers, calls, reports,
                            attempts, allocs >>
            /\ result' = "PASS_THROUGH"
            /\ wm_handler'

C7_OtherEventNoOp == [][C7_OtherEventStep]_vars

C7_Witness ==
    /\ last_event = "ESC"
    /\ result = "PASS_THROUGH"
    /\ wm_handler
    /\ _step = 1
    /\ _num_files = 2
    /\ Len(_failures) = 1

\* C8: when the host shuts the job down while files remain (_step < _num_files),
\* the operator has removed its timer and ended progress, no file is processed
\* beyond the cursor, the brushes created so far are kept, and no save is made.
C8_Cancellation ==
    (shutdown /\ _step < _num_files) =>
        /\ wm_timers = {}
        /\ CallCount("event_timer_remove") = 1
        /\ CallCount("progress_end") = 1
        /\ Len(attempts) = _step
        /\ Len(_created_brushes) = Len(attempts) - Len(FailedAttempts)
        /\ \A i \in DOMAIN _created_brushes : _created_brushes[i].name \in brushes
        /\ SaveCount = 0

\* C9: every call make_unique_name(base_name, existing_names) of a job returns
\* base_name when it is not in existing_names, and otherwise base_name_k for the
\* smallest k >= 1 with base_name_k not in existing_names; so a file with stem s
\* gets s_Brush when that is unreserved and s_Brush_1 when only s_Brush is
\* reserved. The call does not change _existing_brush_names: a tick changes the set
\* only by the insertion of line 116, after a conversion that did not raise.
Candidate(base_name, k) == base_name \o <<"_">> \o str_int(k)

Stem(img_file) == SubSeq(img_file, 1, rfind(img_file, ".") - 1)

C9_AllocInv ==
    \A n \in DOMAIN allocs :
        LET a == allocs[n]
            s_Brush == Stem(a.file) \o <<"_","B","r","u","s","h">>
        IN  /\ a.base \notin a.existing => a.name = a.base
            /\ a.base \in a.existing =>
                  \E k \in 1..(Cardinality(a.existing) + 1) :
                      /\ a.name = Candidate(a.base, k)
                      /\ a.name \notin a.existing
                      /\ \A j \in 1..(k - 1) : Candidate(a.base, j) \in a.existing
            /\ s_Brush \notin a.existing => a.name = s_Brush
            /\ (s_Brush \in a.existing /\ Candidate(s_Brush, 1) \notin a.existing) =>
                  a.name = s_Brush \o <<"_","1">>

C9_AllocStep ==
    Len(allocs') > Len(allocs) =>
        LET a == allocs'[Len(allocs')]
        IN  /\ a.existing = _existing_brush_names
            /\ IF attempts'[Len(attempts')].outcome = "ok"
               THEN _existing_brush_names' = _existing_brush_names \cup {a.name}
               ELSE _existing_brush_names' = _existing_brush_names

C9_MakeUniqueName == []C9_AllocInv /\ [][C9_AllocStep]_vars

C9_Witness ==
    /\ Len(allocs) = 2
    /\ allocs[1].base = allocs[2].base
    /\ allocs[1].name = Candidate(allocs[1].base, 2)
    /\ allocs[2].name = Candidate(allocs[1].base, 3)
    /\ attempts[1].outcome = "ok"

\* C10: every name make_unique_name returns for a file is absent from
\* bpy.data.brushes at that moment: it differs from the names that existed before
\* the job and from the name of every brush the job created, also by a
\* conversion that raised after brushes.new.
C10_CollisionFree ==
    \A n \in DOMAIN allocs : allocs[n].name \notin allocs[n].namespace

\* C11: the path given to save_mainfile is output_blend itself when output_blend,
\* lowercased, ends with '.blend', and output_blend followed by '.blend'
\* otherwise; save_mainfile gets that path in its one call; and normalizing the
\* path it got changes nothing.
DotBlend == <<".","b","l","e","n","d">>

SavePaths == { calls[i].path : i \in { j \in DOMAIN calls : calls[j].op = "save_mainfile" } }

C11_NormalizedPath ==
    /\ \A path \in SavePaths :
          /\ endswith(lower(output_blend), DotBlend) => path = output_blend
          /\ ~endswith(lower(output_blend), DotBlend) => path = output_blend \o DotBlend
          /\ normalize_blend_path(path) = path
    /\ _done => (SaveCount = 1 /\ Cardinality(SavePaths) = 1)

C11_Witness ==
    /\ _done
    /\ output_blend = <<"/","o","/","l",".","B","l","e","n","d">>
    /\ SavePaths = { output_blend }

\* C12: the summary of a successful save gives as count the number of files that
\* were converted (the total minus the failing files), gives the normalized
\* output path, and lists the failing files, which is an empty list exactly when
\* no file failed.
Summaries == { reports[i] : i \in { j \in DOMAIN reports : reports[j].level = "INFO" } }

C12_Summary ==
    \A r \in Summaries :
        /\ r.count = _num_files - Len(FailedAttempts)
        /\ r.path \in SavePaths
        /\ r.files = Files(FailedAttempts)
        /\ (r.files = <<>>) <=> (\A i \in DOMAIN attempts : attempts[i].outcome = "ok")

C12_Witness ==
    /\ Cardinality(Summaries) = 1
    /\ _num_files = 2
    /\ \E r \in Summaries : r.count = 1 /\ r.files = << _image_files[2] >>

\* C13: every terminal path of a submission (FINISHED after a good or a failed
\* save, with or without failing files, or CANCELLED by execute) has made exactly
\* one report over the whole job, and a failing conversion makes no report of its
\* own: at every moment the reports made are at most the final one.
C13_OneReport ==
    /\ Terminal => Len(reports) = 1
    /\ ~Terminal => reports = <<>>

\* C14: the file list of an accepted job is the directory listing restricted to
\* the entries whose lowercased name ends with one of the fourteen extensions:
\* the same entries, each once, in the listing's order, all of them entries of
\* the folder itself; and the list never changes once execute has set it.
HasImageExtension(f) ==
    \E ext \in IMAGE_EXTENSIONS :
        /\ Len(f) >= Len(ext)
        /\ \A k \in 1..Len(ext) : lower_char(f[Len(f) - Len(ext) + k]) = ext[k]

\* The position of an entry in the listing (entries of a directory are distinct).
ListingIndex(f) == CHOOSE i \in DOMAIN listdir : listdir[i] = f

C14_FilterInv ==
    /\ Cardinality(IMAGE_EXTENSIONS) = 14
    /\ Accepted =>
          /\ \A i \in DOMAIN _image_files :
                /\ \E j \in DOMAIN listdir : listdir[j] = _image_files[i]
                /\ HasImageExtension(_image_files[i])
                /\ \A k \in 1..Len(_image_files[i]) : _image_files[i][k] # "/"
          /\ \A j \in DOMAIN listdir :
                HasImageExtension(listdir[j]) =>
                    \E i \in DOMAIN _image_files : _image_files[i] = listdir[j]
          /\ \A i, k \in DOMAIN _image_files :
                i < k => ListingIndex(_image_files[i]) < ListingIndex(_image_files[k])
          /\ _num_files = Len(_image_files)

C14_FilterStep == Accepted => (_image_files' = _image_files /\ listdir' = listdir)

C14_FileFilter == []C14_FilterInv /\ [][C14_FilterStep]_vars

C14_Witness ==
    /\ _done
    /\ Len(listdir) = 2
    /\ ~HasImageExtension(listdir[1])
    /\ _image_files = << <<"a",".","J","P","G">> >>

\* C15: files are processed in listing order, one per TIMER event, each once: the
\* i-th TIMER event of an accepted job (i = 1..total) attempts the i-th file of
\* the list and no other, whether or not the conversion raises, and no file is
\* attempted twice.
ProcessingTick == Len(attempts') > Len(attempts)

C15_OrderInv ==
    Accepted =>
        /\ Len(attempts) = (IF ticks <= _num_files THEN ticks ELSE _num_files)
        /\ \A i \in DOMAIN attempts :
              /\ i \in DOMAIN _image_files
              /\ attempts[i].file = _image_files[i]
        /\ \A i, j \in DOMAIN attempts : i # j => attempts[i].file # attempts[j].file

C15_OrderStep ==
    /\ (ticks' = ticks + 1 /\ ticks < _num_files) =>
          /\ Len(attempts') = Len(attempts) + 1
          /\ SubSeq(attempts', 1, Len(attempts)) = attempts
          /\ attempts'[Len(attempts')].file = _image_files[ticks + 1]
    /\ ~(ticks' = ticks + 1 /\ ticks < _num_files) => attempts' = attempts

C15_ListingOrder == []C15_OrderInv /\ [][C15_OrderStep]_vars

C15_Witness ==
    /\ ticks = 2
    /\ Len(attempts) = 2
    /\ attempts[1].outcome = "texture_error"
    /\ attempts[2].outcome = "ok"
    /\ attempts[2].file = _image_files[2]

\* C16: the progress calls of an accepted job are progress_begin(total), then
\* progress_update(1), progress_update(2), ... one per processing tick, each with
\* the cursor as that tick leaves it, whatever raises, and then, in a finished job,
\* progress_end after progress_update(total); nothing follows progress_end.
IsProgressCall(c) == c.op \in {"progress_begin", "progress_update", "progress_end"}

ProgressCalls == SelectSeq(calls, IsProgressCall)

C16_ProgressInv ==
    Accepted =>
        LET p == ProgressCalls
        IN  /\ Len(p) = 1 + _step + (IF _done THEN 1 ELSE 0)
            /\ p[1] = Call("progress_begin", _num_files, <<>>)
            /\ \A i \in 1.._step : p[i + 1] = Call("progress_update", i, <<>>)
            /\ _done => (_step = _num_files /\ p[Len(p)].op = "progress_end")

C16_ProgressStep ==
    ProcessingTick =>
        /\ calls' = Append(calls, Call("progress_update", _step', <<>>))
        /\ _step' = _step + 1

C16_ProgressProtocol == []C16_ProgressInv /\ [][C16_ProgressStep]_vars

C16_Witness ==
    /\ _done
    /\ Len(ProgressCalls) = 4
    /\ ProgressCalls[3] = Call("progress_update", 2, <<>>)
    /\ attempts[1].outcome = "brush_error"

\* C17: _existing_brush_names is set by execute to the names bpy.data.brushes holds
\* at that moment, and from then on it is that seed united with the names of the
\* brushes in _created_brushes: it only grows, a conversion that raises adds
\* nothing, and it is not read again from bpy.data.brushes.
CreatedNames == { _created_brushes[i].name : i \in DOMAIN _created_brushes }

C17_ReservedInv ==
    /\ Accepted => _existing_brush_names = brushes_at_execute \cup CreatedNames
    /\ ~Accepted => (_existing_brush_names = {} /\ brushes_at_execute = {})

C17_ReservedStep ==
    /\ result = None => (Accepted' => brushes_at_execute' = brushes)
    /\ Accepted =>
          /\ brushes_at_execute' = brushes_at_execute
          /\ _existing_brush_names \subseteq _existing_brush_names'
          /\ (ProcessingTick /\ attempts'[Len(attempts')].outcome # "ok") =>
                _existing_brush_names' = _existing_brush_names

C17_ReservedNames == []C17_ReservedInv /\ [][C17_ReservedStep]_vars

C17_Witness ==
    /\ Len(attempts) = 2
    /\ attempts[1].outcome = "mark_error"
    /\ attempts[2].outcome = "ok"
    /\ brushes_at_execute # {}
    /\ _existing_brush_names # brushes
    /\ _existing_brush_names # brushes_at_execute

\* C18: in an accepted job _step is the number of brushes in _created_brushes plus
\* the number of entries of _failures, and a processing tick adds one element to
\* exactly one of the two and leaves the other as it was.
C18_AccountInv ==
    Accepted => _step = Len(_created_brushes) + Len(_failures)

C18_AccountStep ==
    ProcessingTick =>
        \/ /\ Len(_created_brushes') = Len(_created_brushes) + 1
           /\ SubSeq(_created_brushes', 1, Len(_created_brushes)) = _created_brushes
           /\ _failures' = _failures
        \/ /\ Len(_failures') = Len(_failures) + 1
           /\ SubSeq(_failures', 1, Len(_failures)) = _failures
           /\ _created_brushes' = _created_brushes

C18_Accounting == []C18_AccountInv /\ [][C18_AccountStep]_vars

C18_Witness ==
    /\ _step = 2
    /\ Len(_created_brushes) = 1
    /\ Len(_failures) = 1
    /\ attempts[1].outcome = "ok"

\* The timer of line 83 keeps firing while the operator is a modal handler: a
\* TIMER event that stays deliverable is delivered.
\* Which events are delivered depends neither on the spelling of a valid output
\* path nor on which brushes exist, so the jobs followed to their end start from
\* one output path and from no brush or every brush of PreBrushNames.
FairInit ==
    /\ Init
    /\ output_blend = <<"/","o","/","l">>
    /\ brushes \in { {}, PreBrushNames }

FairSpec == FairInit /\ [][Next]_vars /\ WF_vars(modal("TIMER"))

\* C19: while TIMER events are delivered (the host does not shut the job down),
\* an accepted job with n files finishes, and it finishes on its (n+1)-th TIMER
\* event: the first n events convert one file each and make no save, also the one
\* that converts the last file; the next one saves, sets _done and ends the job.
C19_TickInv ==
    Accepted =>
        /\ ticks <= _num_files + 1
        /\ _done <=> (ticks = _num_files + 1)
        /\ _done => result = "FINISHED"
        /\ ticks <= _num_files => (_step = ticks /\ SaveCount = 0 /\ result # "FINISHED")

C19_Termination == []C19_TickInv /\ (Accepted ~> (_done \/ shutdown))

C19_Witness ==
    /\ _done
    /\ ~shutdown
    /\ _num_files = 2
    /\ ticks = 3
    /\ last_event = "TIMER"

\* modal() is called once more, with a TIMER event, on an operator that has
\* finished: the window manager has dropped the handler, so this is a call the
\* window manager of Spec never makes; modal() itself has no test of _done that
\* would refuse it.
late_tick ==
    /\ _done
    /\ ~wm_handler
    /\ ticks < _num_files + 1 + MaxLateTicks
    /\ modal_call("TIMER")

LateNext ==
    \/ Next
    \/ late_tick

LateSpec == Init /\ [][LateNext]_vars

\* C20: once the operator has finished (_done), a further TIMER event given to it
\* makes no further save, conversion, release or report: after any number of such
\* events the job has still saved once, removed its timer once, ended progress
\* once, attempted each file once and made its final report once.
C20_Absorbing ==
    (_done /\ ticks > _num_files + 1) =>
        /\ SaveCount = 1
        /\ CallCount("event_timer_remove") = 1
        /\ CallCount("progress_end") = 1
        /\ Len(attempts) = _num_files
        /\ Len(reports) = Len(FailedAttempts) + 1

====
